---------------------------- MODULE Spec2Model ----------------------------
(***************************************************************************)
(* Bake: the command registry of src/bake.py.                              *)
(*                                                                         *)
(* The registry has no memory of its own: its state is the content of two  *)
(* directories, the wrapper-scripts folder (one generated wrapper per      *)
(* command) and the user bin directory (one symlink per command).  The     *)
(* handlers add_command, delete_command, rename_command and list_commands  *)
(* are modelled one filesystem call per step, in the order of the source,  *)
(* so that the states between two calls of a handler are states of the     *)
(* model.  A handler runs to its end before the next one starts (pc).      *)
(*                                                                         *)
(* Command names are sequences of one-character strings and script paths   *)
(* are sequences of path tokens, so that validation, rendering and parsing *)
(* are computed on text as the source computes them.                       *)
(***************************************************************************)
EXTENDS Naturals, Sequences, FiniteSets

VARIABLES
    wrappers,   \* WRAPPER_SCRIPTS_FOLDER: name -> the wrapper file, or NoFile
    bin,        \* USER_BIN_DIR: name -> the entry of that name, or NoEntry
    folder,     \* whether WRAPPER_SCRIPTS_FOLDER exists
    pc,         \* the place of the running handler, "idle" between handlers
    call,       \* the arguments of the running (or last) handler
    loc,        \* the locals of the running (or last) handler
    out,        \* what the running (or last) handler printed and asked
    pre,        \* wrappers and bin as they were when the handler was called
    prior,      \* the handler that ran before this one, and how it ended
    listing     \* the rows of the table the running (or last) handler printed

vars == <<wrappers, bin, folder, pc, call, loc, out, pre, prior, listing>>

-----------------------------------------------------------------------------
(* Characters.  Python compares and sorts str by code point; AsciiOrder    *)
(* lists the characters used here in that order.                           *)

LowerLetters == <<"a","b","c","d","e","f","g","h","i","j","k","l","m",
                  "n","o","p","q","r","s","t","u","v","w","x","y","z">>

UpperLetters == <<"A","B","C","D","E","F","G","H","I","J","K","L","M",
                  "N","O","P","Q","R","S","T","U","V","W","X","Y","Z">>

Digits == {"0","1","2","3","4","5","6","7","8","9"}

Range(s) == {s[i] : i \in 1..Len(s)}

Letters == Range(LowerLetters) \cup Range(UpperLetters)

AsciiOrder == <<"\n", " ", "-", "0","1","2","3","4","5","6","7","8","9">>
              \o UpperLetters \o <<"_">> \o LowerLetters

Code(c) == CHOOSE i \in 1..Len(AsciiOrder) : AsciiOrder[i] = c

\* str.lower() on one character
LowerChar(c) ==
    IF c \in Range(UpperLetters)
    THEN LowerLetters[CHOOSE i \in 1..26 : UpperLetters[i] = c]
    ELSE c

\* str.lower()
Lower(s) == [i \in 1..Len(s) |-> LowerChar(s[i])]

\* s < t for two str, as Python orders them
RECURSIVE StrLess(_, _)
StrLess(s, t) ==
    IF t = <<>> THEN FALSE
    ELSE IF s = <<>> THEN TRUE
    ELSE IF s[1] # t[1] THEN Code(s[1]) < Code(t[1])
    ELSE StrLess(Tail(s), Tail(t))

-----------------------------------------------------------------------------
(* validate_command_name                                                   *)

\* re.match(r'^[a-zA-Z][a-zA-Z0-9_-]*$', name): "$" also matches just before
\* a newline that ends the string.
NameRegexMatches(name) ==
    /\ Len(name) >= 1
    /\ name[1] \in Letters
    /\ \A i \in 2..Len(name) :
          \/ name[i] \in Letters \cup Digits \cup {"_", "-"}
          \/ i = Len(name) /\ name[i] = "\n"

ToolName == <<"b","a","k","e">>

reserved_names ==
    { <<"p","y","t","h","o","n">>, <<"p","y","t","h","o","n","3">>,
      <<"p","i","p">>, <<"p","i","p","3">>, <<"g","i","t">>, <<"l","s">>,
      <<"c","d">>, <<"p","w","d">>, <<"c","a","t">>, <<"g","r","e","p">>,
      <<"f","i","n","d">>, <<"m","k","d","i","r">>, <<"r","m">>,
      <<"c","p">>, <<"m","v">> }

\* validate_command_name comparing the name as typed, not name.lower()
validate_command_name_cased(name) ==
    IF name = <<>> THEN "empty"
    ELSE IF ~NameRegexMatches(name) THEN "format"
    ELSE IF name = ToolName THEN "bake"
    ELSE IF name \in reserved_names THEN "reserved"
    ELSE "ok"

\* The message validate_command_name returns, "ok" for (True, None).
validate_command_name(name) ==
    IF name = <<>> THEN "empty"
    ELSE IF ~NameRegexMatches(name) THEN "format"
    ELSE IF Lower(name) = ToolName THEN "bake"
    ELSE IF Lower(name) \in reserved_names THEN "reserved"
    ELSE "ok"

-----------------------------------------------------------------------------
(* Script paths.  A path is a sequence of tokens: "/" and the plain        *)
(* components, the double quote (a legal character of a POSIX file name),  *)
(* and the suffixes a final component can end in.                          *)

QUOTE == "\""

SuffixTokens == {".py", ".pyw", ".PYW", ".sh"}

Cwd == <<"/", "home", "/">>

\* os.path.abspath: a relative name is joined to the working directory.
abspath(p) == IF p # <<>> /\ p[1] = "/" THEN p ELSE Cwd \o p

\* Path(p).suffix.lower()
suffix_lower(p) ==
    IF p = <<>> \/ p[Len(p)] \notin SuffixTokens THEN ""
    ELSE IF p[Len(p)] = ".PYW" THEN ".pyw"
    ELSE p[Len(p)]

\* What the filesystem holds at a script path when add_command looks.
ScriptKinds == {"file", "unreadable", "dir", "missing"}

\* The message validate_script_path returns, "ok" for (True, None).
validate_script_path(script_path, kind) ==
    IF script_path = <<>> THEN "empty path"
    ELSE IF kind = "missing" THEN "script not found"
    ELSE IF kind = "dir" THEN "not a file"
    ELSE IF suffix_lower(script_path) \notin {".py", ".pyw"} THEN "not python"
    ELSE IF kind = "unreadable" THEN "cannot read"
    ELSE "ok"

-----------------------------------------------------------------------------
(* The wrapper's text: create_wrapper_script writes it, and add_command,   *)
(* rename_command and list_commands read the path back from it with        *)
(* content.split('script_path = "')[1].split('"')[0].                      *)

MARK == "script_path = \""

HEAD == "#!/usr/bin/env python3 ... from pathlib import Path"

BODY == <<"def main(): ... print(f", QUOTE, "Error: Script not found ...">>

create_wrapper_script(script_path) ==
    <<HEAD, MARK>> \o script_path \o <<QUOTE>> \o BODY

\* The longest prefix of s that holds no token of stops.
RECURSIVE TakeUntil(_, _)
TakeUntil(s, stops) ==
    IF s = <<>> \/ s[1] \in stops THEN <<>>
    ELSE <<s[1]>> \o TakeUntil(Tail(s), stops)

\* content.split(MARK) has no [1]: IndexError
HasMarker(content) == MARK \in Range(content)

\* content.split(MARK)[1].split('"')[0], for a content that has the marker
extract_script_path(content) ==
    LET i == CHOOSE k \in 1..Len(content) :
                 content[k] = MARK /\ \A j \in 1..(k-1) : content[j] # MARK
    IN  TakeUntil(SubSeq(content, i + 1, Len(content)), {MARK, QUOTE})

-----------------------------------------------------------------------------
(* The two directories.                                                    *)

NoFile == [present |-> FALSE, text |-> <<>>, exec |-> FALSE]

File(text, exec) == [present |-> TRUE, text |-> text, exec |-> exec]

\* An entry of USER_BIN_DIR: none, a symlink to WRAPPER_SCRIPTS_FOLDER/<to>,
\* or something the registry did not create: a regular file ("file") or a
\* symlink to a file elsewhere ("flink").
NoEntry == [kind |-> "none", to |-> <<>>]

Link(n) == [kind |-> "link", to |-> n]

ForeignFile == [kind |-> "file", to |-> <<>>]

ForeignLink == [kind |-> "flink", to |-> <<>>]

\* os.path.exists(os.path.join(WRAPPER_SCRIPTS_FOLDER, n)); with the empty
\* name the joined path is the folder itself.
wrapper_exists(W, n) ==
    IF n = <<>> THEN folder
    ELSE n \in DOMAIN W /\ W[n].present

\* os.path.exists(os.path.join(USER_BIN_DIR, n)): follows a symlink, so a
\* symlink whose wrapper is gone does not exist.  With the empty name the
\* joined path is the bin directory itself.
symlink_exists(B, W, n) ==
    IF n = <<>> THEN TRUE
    ELSE /\ n \in DOMAIN B
         /\ \/ B[n].kind \in {"file", "flink"}
            \/ B[n].kind = "link" /\ wrapper_exists(W, B[n].to)

\* os.path.exists(p) or os.path.islink(p): any entry, dangling or not
symlink_lexists(B, W, n) ==
    \/ symlink_exists(B, W, n)
    \/ n \in DOMAIN B /\ B[n].kind # "none"

\* safe_remove_file returning True without removing
safe_remove_file_keeps(W, n, fails) ==
    [calls |-> wrapper_exists(W, n), ok |-> ~fails, wrappers |-> W]

\* safe_remove_file.  calls: os.remove is reached; ok: the value returned;
\* fails: os.remove raises OSError (always, on a directory).
safe_remove_file(W, n, fails) ==
    IF ~wrapper_exists(W, n) THEN [calls |-> FALSE, ok |-> TRUE, wrappers |-> W]
    ELSE IF fails \/ n = <<>> THEN [calls |-> TRUE, ok |-> FALSE, wrappers |-> W]
    ELSE [calls |-> TRUE, ok |-> TRUE, wrappers |-> [W EXCEPT ![n] = NoFile]]

\* safe_remove_symlink
safe_remove_symlink(B, W, n, fails) ==
    IF ~symlink_lexists(B, W, n) THEN [calls |-> FALSE, ok |-> TRUE, bin |-> B]
    ELSE IF fails \/ n = <<>> THEN [calls |-> TRUE, ok |-> FALSE, bin |-> B]
    ELSE [calls |-> TRUE, ok |-> TRUE, bin |-> [B EXCEPT ![n] = NoEntry]]

-----------------------------------------------------------------------------
(* The arguments the handlers are called with.                             *)

Names ==
    { <<"a">>, <<"B">>, <<>>, <<"1","a">>, <<"g","i","t">>, <<"B","a","k","e">> }

\* More names that validate_command_name refuses: the whole reserved set,
\* the tool's name, other spellings of both, a bad character.
AllNames ==
    Names \cup reserved_names
    \cup { ToolName, <<"B","A","K","E">>, <<"G","I","T">>, <<"P","i","p","3">>,
           <<"M","v">>, <<"a"," ">>, <<"9">> }

\* validate_command_name on each name
name_check == [n \in AllNames |-> validate_command_name(n)]

\* The names add_command and rename_command can create entries for.
StoreNames == {n \in AllNames : name_check[n] = "ok"}

\* The old names rename_command is called with: it does not validate them.
OldNames == StoreNames \cup { <<>>, <<"g","i","t">> }

ScriptArgs ==
    { <<"/", "x", ".py">>,
      <<"y", ".PYW">>,
      <<"/", "x", ".py", QUOTE, ".py">>,
      <<"/", "x", ".sh">> }

\* What the user types at "Do you want to overwrite it? [y/N]: "
Answers == { <<"y">>, <<"Y">>, <<"n">>, <<>> }

NoCall == [op |-> "none", name |-> <<>>, new_name |-> <<>>, path |-> <<>>,
           force |-> FALSE, answer |-> <<>>]

NoLocals == [script_path |-> <<>>, symlink_removed |-> TRUE, failed |-> FALSE]

\* One line of output: printer.error / warn / info / success, or printer.input
MsgPath(level, text, path) == [level |-> level, text |-> text, path |-> path]

Msg(level, text) == MsgPath(level, text, <<>>)

Succeeded(o) == \E i \in 1..Len(o) : o[i].level = "success"

\* A handler is called: the directories are remembered as they are, and the
\* handler before it is remembered when it was an add_command that reported
\* success.
Enter(c) ==
    /\ pc = "idle"
    /\ call' = c
    /\ pre' = [wrappers |-> wrappers, bin |-> bin]
    /\ prior' = IF call.op = "add" /\ Succeeded(out)
                THEN [call EXCEPT !.path = loc.script_path, !.answer = <<>>]
                ELSE NoCall

\* A filesystem call of the running handler fails: at most one per handler.
Fault(fails) == fails => ~loc.failed

-----------------------------------------------------------------------------
(* After install(): both directories exist and hold no command.            *)

Init ==
    /\ wrappers = [n \in StoreNames |-> NoFile]
    /\ bin = [n \in StoreNames |-> NoEntry]
    /\ folder = TRUE
    /\ pc = "idle"
    /\ call = NoCall
    /\ loc = NoLocals
    /\ out = <<>>
    /\ pre = [wrappers |-> wrappers, bin |-> bin]
    /\ prior = NoCall
    /\ listing = <<>>

-----------------------------------------------------------------------------
(* add_command                                                             *)

\* The overwrite question answered with "n" only counting as a refusal
declines_only_n(answer) == answer = <<"n">>

\* Lines 261-262 (357-358): confirm = printer.input(...).lower();
\* if confirm != 'y': cancelled
declines(answer) == Lower(answer) # <<"y">>

\* Lines 251-264: the overwrite question.  What is printed before the
\* question, for a name whose wrapper or symlink exists.
ExistsReport(W, n, more) ==
    << Msg("warn", "already exists") >>
    \o ( IF wrapper_exists(W, n) /\ n \in DOMAIN W /\ HasMarker(W[n].text)
         THEN << MsgPath("info", "current script",
                         extract_script_path(W[n].text)) >> \o more
         ELSE <<>> )
    \o << Msg("input", "overwrite?") >>

\* Lines 254-257 (350-354): content.split('script_path = "')[1] on a wrapper
\* without the marker raises IndexError, outside the try: main() reports it.
ReportRaises(W, n) ==
    wrapper_exists(W, n) /\ n \in DOMAIN W /\ ~HasMarker(W[n].text)

\* Lines 227-264: the checks before anything is written.
add_command(n, arg, kind, force, answer) ==
    /\ Enter([op |-> "add", name |-> n, new_name |-> <<>>, path |-> arg,
              force |-> force, answer |-> answer])
    /\ LET script_path == abspath(arg)
           taken == wrapper_exists(wrappers, n) \/ symlink_exists(bin, wrappers, n)
       IN  IF name_check[n] # "ok"
           THEN /\ out' = << Msg("error", name_check[n]) >>
                /\ loc' = NoLocals
                /\ pc' = "idle"
           ELSE IF validate_script_path(script_path, kind) # "ok"
           THEN /\ out' = << Msg("error", validate_script_path(script_path, kind)) >>
                /\ loc' = [NoLocals EXCEPT !.script_path = script_path]
                /\ pc' = "idle"
           ELSE IF taken /\ ~force /\ ReportRaises(wrappers, n)
           THEN /\ out' = << Msg("warn", "already exists"),
                             Msg("error", "operation failed") >>
                /\ loc' = [NoLocals EXCEPT !.script_path = script_path]
                /\ pc' = "idle"
           ELSE IF taken /\ ~force /\ declines(answer)
           THEN /\ out' = ExistsReport(wrappers, n,
                               << MsgPath("info", "new script", script_path) >>)
                          \o << Msg("info", "cancelled") >>
                /\ loc' = [NoLocals EXCEPT !.script_path = script_path]
                /\ pc' = "idle"
           ELSE /\ out' = IF taken /\ ~force
                          THEN ExistsReport(wrappers, n,
                               << MsgPath("info", "new script", script_path) >>)
                          ELSE <<>>
                /\ loc' = [NoLocals EXCEPT !.script_path = script_path]
                /\ pc' = "add_write"
    /\ listing' = <<>>
    /\ UNCHANGED <<wrappers, bin, folder>>

\* Line 282-286: OSError is caught, reported, and the wrapper cleaned up.
AddRaise ==
    /\ out' = out \o << Msg("error", "failed to create") >>
    /\ pc' = "add_rollback"

\* Lines 268-269: open(wrapper_path, 'w') and write.  how: "ok", "open" (the
\* open raises, nothing is written) or "write" (the write raises after the
\* open created or truncated the file).
add_write(how) ==
    /\ pc = "add_write"
    /\ Fault(how # "ok")
    /\ LET n == call.name
           mode == wrappers[n].exec
       IN  IF how = "ok" /\ folder
           THEN /\ wrappers' = [wrappers EXCEPT
                      ![n] = File(create_wrapper_script(loc.script_path), mode)]
                /\ pc' = "add_chmod"
                /\ UNCHANGED out
           ELSE /\ wrappers' = IF how = "write" /\ folder
                               THEN [wrappers EXCEPT ![n] = File(<<>>, mode)]
                               ELSE wrappers
                /\ AddRaise
    /\ loc' = [loc EXCEPT !.failed = @ \/ how # "ok"]
    /\ UNCHANGED <<bin, folder, call, pre, prior, listing>>

\* Line 272: os.chmod(wrapper_path, 0o755)
add_chmod(fails) ==
    /\ pc = "add_chmod"
    /\ Fault(fails)
    /\ IF fails
       THEN /\ AddRaise
            /\ UNCHANGED wrappers
       ELSE /\ wrappers' = [wrappers EXCEPT ![call.name].exec = TRUE]
            /\ pc' = "add_remove_symlink"
            /\ UNCHANGED out
    /\ loc' = [loc EXCEPT !.failed = @ \/ fails]
    /\ UNCHANGED <<bin, folder, call, pre, prior, listing>>

\* Lines 275-276: if os.path.exists(symlink_path): safe_remove_symlink(...);
\* the value it returns is not looked at.
add_remove_symlink(fails) ==
    /\ pc = "add_remove_symlink"
    /\ Fault(fails)
    /\ LET n == call.name
           r == safe_remove_symlink(bin, wrappers, n, fails)
       IN  /\ fails => symlink_exists(bin, wrappers, n) /\ r.calls
           /\ bin' = IF symlink_exists(bin, wrappers, n) THEN r.bin ELSE bin
           /\ out' = IF symlink_exists(bin, wrappers, n) /\ ~r.ok
                     THEN out \o << Msg("error", "remove failed") >>
                     ELSE out
    /\ pc' = "add_symlink"
    /\ loc' = [loc EXCEPT !.failed = @ \/ fails]
    /\ UNCHANGED <<wrappers, folder, call, pre, prior, listing>>

\* Lines 277-280: os.symlink(wrapper_path, symlink_path), which raises
\* FileExistsError when an entry of that name is still there, then the
\* success message.
add_symlink(fails) ==
    /\ pc = "add_symlink"
    /\ Fault(fails)
    /\ LET n == call.name
       IN  IF fails \/ symlink_lexists(bin, wrappers, n)
           THEN /\ AddRaise
                /\ UNCHANGED bin
           ELSE /\ bin' = [bin EXCEPT ![n] = Link(n)]
                /\ out' = out \o << Msg("success", "added") >>
                /\ pc' = "idle"
    /\ loc' = [loc EXCEPT !.failed = @ \/ fails]
    /\ UNCHANGED <<wrappers, folder, call, pre, prior, listing>>

\* add_command without its line 286: the wrapper is left
add_rollback_skipped(fails) ==
    /\ pc = "add_rollback"
    /\ ~fails
    /\ pc' = "idle"
    /\ UNCHANGED <<wrappers, bin, folder, call, loc, out, pre, prior, listing>>

\* Line 286: safe_remove_file(wrapper_path, printer)
add_rollback(fails) ==
    /\ pc = "add_rollback"
    /\ Fault(fails)
    /\ LET r == safe_remove_file(wrappers, call.name, fails)
       IN  /\ fails => r.calls
           /\ wrappers' = r.wrappers
           /\ out' = IF r.ok THEN out
                     ELSE out \o << Msg("error", "remove failed") >>
    /\ pc' = "idle"
    /\ loc' = [loc EXCEPT !.failed = @ \/ fails]
    /\ UNCHANGED <<bin, folder, call, pre, prior, listing>>

-----------------------------------------------------------------------------
(* edit_command                                                            *)

\* What the user leaves in the wrapper when the editor closes: the text as
\* it was, the text with another path, or a text without the marker line.
EditResults == {"same", "retarget", "garbage"}

edited(text, result) ==
    IF result = "same" THEN text
    ELSE IF result = "retarget" THEN create_wrapper_script(<<"/", "x", ".py">>)
    ELSE <<HEAD>>

\* Lines 290-298.  With the empty name the path handed to the editor is the
\* folder itself.
edit_command(n, result) ==
    /\ Enter([op |-> "edit", name |-> n, new_name |-> <<>>, path |-> <<>>,
              force |-> FALSE, answer |-> <<>>])
    /\ IF ~wrapper_exists(wrappers, n)
       THEN /\ out' = << Msg("error", "not found") >>
            /\ UNCHANGED wrappers
       ELSE /\ out' = << Msg("system", "editor"), Msg("success", "edited") >>
            /\ wrappers' = IF n \in DOMAIN wrappers
                           THEN [wrappers EXCEPT ![n].text = edited(@, result)]
                           ELSE wrappers
    /\ loc' = NoLocals
    /\ pc' = "idle"
    /\ listing' = <<>>
    /\ UNCHANGED <<bin, folder>>

-----------------------------------------------------------------------------
(* delete_command                                                          *)

\* Lines 301-307: a name with no wrapper is "not found".
delete_command(n) ==
    /\ Enter([op |-> "delete", name |-> n, new_name |-> <<>>, path |-> <<>>,
              force |-> FALSE, answer |-> <<>>])
    /\ IF ~wrapper_exists(wrappers, n)
       THEN /\ out' = << Msg("error", "not found") >>
            /\ pc' = "idle"
       ELSE /\ out' = <<>>
            /\ pc' = "delete_symlink"
    /\ loc' = NoLocals
    /\ listing' = <<>>
    /\ UNCHANGED <<wrappers, bin, folder>>

\* delete_command without its line 310: the symlink is left
delete_symlink_skipped(fails) ==
    /\ pc = "delete_symlink"
    /\ ~fails
    /\ pc' = "delete_wrapper"
    /\ UNCHANGED <<wrappers, bin, folder, call, loc, out, pre, prior, listing>>

\* Line 310: symlink_removed = safe_remove_symlink(symlink_path, printer)
delete_symlink(fails) ==
    /\ pc = "delete_symlink"
    /\ Fault(fails)
    /\ LET r == safe_remove_symlink(bin, wrappers, call.name, fails)
       IN  /\ fails => r.calls
           /\ bin' = r.bin
           /\ out' = IF r.ok THEN out
                     ELSE out \o << Msg("error", "remove failed") >>
           /\ loc' = [loc EXCEPT !.symlink_removed = r.ok,
                                 !.failed = @ \/ fails]
    /\ pc' = "delete_wrapper"
    /\ UNCHANGED <<wrappers, folder, call, pre, prior, listing>>

\* delete_command reporting on the wrapper's removal alone
delete_wrapper_forgets_symlink(fails) ==
    /\ pc = "delete_wrapper"
    /\ Fault(fails)
    /\ LET r == safe_remove_file(wrappers, call.name, fails)
       IN  /\ fails => r.calls
           /\ wrappers' = r.wrappers
           /\ out' = out
                \o ( IF r.ok THEN <<>> ELSE << Msg("error", "remove failed") >> )
                \o ( IF r.ok
                     THEN << Msg("success", "deleted") >>
                     ELSE << Msg("warn", "partially deleted") >> )
    /\ loc' = [loc EXCEPT !.failed = @ \/ fails]
    /\ pc' = "idle"
    /\ UNCHANGED <<bin, folder, call, pre, prior, listing>>

\* Lines 313-318: wrapper_removed = safe_remove_file(wrapper_path, printer),
\* then the report.
delete_wrapper(fails) ==
    /\ pc = "delete_wrapper"
    /\ Fault(fails)
    /\ LET r == safe_remove_file(wrappers, call.name, fails)
       IN  /\ fails => r.calls
           /\ wrappers' = r.wrappers
           /\ out' = out
                \o ( IF r.ok THEN <<>> ELSE << Msg("error", "remove failed") >> )
                \o ( IF loc.symlink_removed /\ r.ok
                     THEN << Msg("success", "deleted") >>
                     ELSE << Msg("warn", "partially deleted") >> )
    /\ loc' = [loc EXCEPT !.failed = @ \/ fails]
    /\ pc' = "idle"
    /\ UNCHANGED <<bin, folder, call, pre, prior, listing>>

-----------------------------------------------------------------------------
(* rename_command                                                          *)

\* Lines 321-359: the checks before anything is written.
rename_command(old_name, new_name, force, answer) ==
    /\ Enter([op |-> "rename", name |-> old_name, new_name |-> new_name,
              path |-> <<>>, force |-> force, answer |-> answer])
    /\ LET taken == \/ wrapper_exists(wrappers, new_name)
                    \/ symlink_exists(bin, wrappers, new_name)
       IN  IF name_check[new_name] # "ok"
           THEN /\ out' = << Msg("error", name_check[new_name]) >>
                /\ pc' = "idle"
           ELSE IF old_name = new_name
           THEN /\ out' = << Msg("error", "same name") >>
                /\ pc' = "idle"
           ELSE IF ~wrapper_exists(wrappers, old_name)
           THEN /\ out' = << Msg("error", "not found") >>
                /\ pc' = "idle"
           ELSE IF taken /\ ~force /\ ReportRaises(wrappers, new_name)
           THEN /\ out' = << Msg("warn", "already exists"),
                             Msg("error", "operation failed") >>
                /\ pc' = "idle"
           ELSE IF taken /\ ~force /\ declines(answer)
           THEN /\ out' = ExistsReport(wrappers, new_name, <<>>)
                          \o << Msg("info", "cancelled") >>
                /\ pc' = "idle"
           ELSE /\ out' = IF taken /\ ~force
                          THEN ExistsReport(wrappers, new_name, <<>>)
                          ELSE <<>>
                /\ pc' = "rename_read"
    /\ loc' = NoLocals
    /\ listing' = <<>>
    /\ UNCHANGED <<wrappers, bin, folder>>

\* Lines 387-389: any exception is caught, reported, and the new wrapper and
\* the new symlink cleaned up.
RenameRaise ==
    /\ out' = out \o << Msg("error", "failed to rename") >>
    /\ pc' = "rename_rollback_wrapper"

\* Lines 363-365: the old wrapper is read and the path taken from it.  The
\* open raises on the old wrapper's path when that is the folder itself.
rename_read(fails) ==
    /\ pc = "rename_read"
    /\ Fault(fails)
    /\ LET a == call.name
       IN  IF fails \/ a \notin DOMAIN wrappers \/ ~HasMarker(wrappers[a].text)
           THEN /\ RenameRaise
                /\ loc' = [loc EXCEPT !.failed = @ \/ fails]
           ELSE /\ pc' = "rename_write"
                /\ loc' = [loc EXCEPT
                      !.script_path = extract_script_path(wrappers[a].text)]
                /\ UNCHANGED out
    /\ UNCHANGED <<wrappers, bin, folder, call, pre, prior, listing>>

\* Lines 368-369: open(new_wrapper_path, 'w') and write; how as in add_write.
rename_write(how) ==
    /\ pc = "rename_write"
    /\ Fault(how # "ok")
    /\ LET b == call.new_name
           mode == wrappers[b].exec
       IN  IF how = "ok" /\ folder
           THEN /\ wrappers' = [wrappers EXCEPT
                      ![b] = File(create_wrapper_script(loc.script_path), mode)]
                /\ pc' = "rename_chmod"
                /\ UNCHANGED out
           ELSE /\ wrappers' = IF how = "write" /\ folder
                               THEN [wrappers EXCEPT ![b] = File(<<>>, mode)]
                               ELSE wrappers
                /\ RenameRaise
    /\ loc' = [loc EXCEPT !.failed = @ \/ how # "ok"]
    /\ UNCHANGED <<bin, folder, call, pre, prior, listing>>

\* Line 372: os.chmod(new_wrapper_path, 0o755)
rename_chmod(fails) ==
    /\ pc = "rename_chmod"
    /\ Fault(fails)
    /\ IF fails
       THEN /\ RenameRaise
            /\ UNCHANGED wrappers
       ELSE /\ wrappers' = [wrappers EXCEPT ![call.new_name].exec = TRUE]
            /\ pc' = "rename_remove_symlink"
            /\ UNCHANGED out
    /\ loc' = [loc EXCEPT !.failed = @ \/ fails]
    /\ UNCHANGED <<bin, folder, call, pre, prior, listing>>

\* Lines 375-376: if os.path.exists(new_symlink_path):
\* safe_remove_symlink(...); the value it returns is not looked at.
rename_remove_symlink(fails) ==
    /\ pc = "rename_remove_symlink"
    /\ Fault(fails)
    /\ LET b == call.new_name
           r == safe_remove_symlink(bin, wrappers, b, fails)
       IN  /\ fails => symlink_exists(bin, wrappers, b) /\ r.calls
           /\ bin' = IF symlink_exists(bin, wrappers, b) THEN r.bin ELSE bin
           /\ out' = IF symlink_exists(bin, wrappers, b) /\ ~r.ok
                     THEN out \o << Msg("error", "remove failed") >>
                     ELSE out
    /\ pc' = "rename_symlink"
    /\ loc' = [loc EXCEPT !.failed = @ \/ fails]
    /\ UNCHANGED <<wrappers, folder, call, pre, prior, listing>>

\* Line 377: os.symlink(new_wrapper_path, new_symlink_path)
rename_symlink(fails) ==
    /\ pc = "rename_symlink"
    /\ Fault(fails)
    /\ LET b == call.new_name
       IN  IF fails \/ symlink_lexists(bin, wrappers, b)
           THEN /\ RenameRaise
                /\ UNCHANGED bin
           ELSE /\ bin' = [bin EXCEPT ![b] = Link(b)]
                /\ pc' = "rename_old_symlink"
                /\ UNCHANGED out
    /\ loc' = [loc EXCEPT !.failed = @ \/ fails]
    /\ UNCHANGED <<wrappers, folder, call, pre, prior, listing>>

\* rename_command without its line 380: the old symlink is left
rename_old_symlink_skipped(fails) ==
    /\ pc = "rename_old_symlink"
    /\ ~fails
    /\ pc' = "rename_old_wrapper"
    /\ UNCHANGED <<wrappers, bin, folder, call, loc, out, pre, prior, listing>>

\* Line 380: safe_remove_symlink(old_symlink_path, printer)
rename_old_symlink(fails) ==
    /\ pc = "rename_old_symlink"
    /\ Fault(fails)
    /\ LET r == safe_remove_symlink(bin, wrappers, call.name, fails)
       IN  /\ fails => r.calls
           /\ bin' = r.bin
           /\ out' = IF r.ok THEN out
                     ELSE out \o << Msg("error", "remove failed") >>
    /\ pc' = "rename_old_wrapper"
    /\ loc' = [loc EXCEPT !.failed = @ \/ fails]
    /\ UNCHANGED <<wrappers, folder, call, pre, prior, listing>>

\* Lines 383-385: safe_remove_file(old_wrapper_path, printer), then the
\* success message, whatever the two removals returned.
rename_old_wrapper(fails) ==
    /\ pc = "rename_old_wrapper"
    /\ Fault(fails)
    /\ LET r == safe_remove_file(wrappers, call.name, fails)
       IN  /\ fails => r.calls
           /\ wrappers' = r.wrappers
           /\ out' = out
                \o ( IF r.ok THEN <<>> ELSE << Msg("error", "remove failed") >> )
                \o << Msg("success", "renamed") >>
    /\ pc' = "idle"
    /\ loc' = [loc EXCEPT !.failed = @ \/ fails]
    /\ UNCHANGED <<bin, folder, call, pre, prior, listing>>

\* The clean-up removing the old wrapper instead of the new one
rename_rollback_wrapper_old(fails) ==
    /\ pc = "rename_rollback_wrapper"
    /\ Fault(fails)
    /\ LET r == safe_remove_file(wrappers, call.name, fails)
       IN  /\ fails => r.calls
           /\ wrappers' = r.wrappers
           /\ out' = IF r.ok THEN out
                     ELSE out \o << Msg("error", "remove failed") >>
    /\ pc' = "rename_rollback_symlink"
    /\ loc' = [loc EXCEPT !.failed = @ \/ fails]
    /\ UNCHANGED <<bin, folder, call, pre, prior, listing>>

\* Line 390: safe_remove_file(new_wrapper_path, printer)
rename_rollback_wrapper(fails) ==
    /\ pc = "rename_rollback_wrapper"
    /\ Fault(fails)
    /\ LET r == safe_remove_file(wrappers, call.new_name, fails)
       IN  /\ fails => r.calls
           /\ wrappers' = r.wrappers
           /\ out' = IF r.ok THEN out
                     ELSE out \o << Msg("error", "remove failed") >>
    /\ pc' = "rename_rollback_symlink"
    /\ loc' = [loc EXCEPT !.failed = @ \/ fails]
    /\ UNCHANGED <<bin, folder, call, pre, prior, listing>>

\* The clean-up removing the old symlink instead of the new one
rename_rollback_symlink_old(fails) ==
    /\ pc = "rename_rollback_symlink"
    /\ Fault(fails)
    /\ LET r == safe_remove_symlink(bin, wrappers, call.name, fails)
       IN  /\ fails => r.calls
           /\ bin' = r.bin
           /\ out' = IF r.ok THEN out
                     ELSE out \o << Msg("error", "remove failed") >>
    /\ pc' = "idle"
    /\ loc' = [loc EXCEPT !.failed = @ \/ fails]
    /\ UNCHANGED <<wrappers, folder, call, pre, prior, listing>>

\* Line 391: safe_remove_symlink(new_symlink_path, printer)
rename_rollback_symlink(fails) ==
    /\ pc = "rename_rollback_symlink"
    /\ Fault(fails)
    /\ LET r == safe_remove_symlink(bin, wrappers, call.new_name, fails)
       IN  /\ fails => r.calls
           /\ bin' = r.bin
           /\ out' = IF r.ok THEN out
                     ELSE out \o << Msg("error", "remove failed") >>
    /\ pc' = "idle"
    /\ loc' = [loc EXCEPT !.failed = @ \/ fails]
    /\ UNCHANGED <<wrappers, folder, call, pre, prior, listing>>

-----------------------------------------------------------------------------
(* list_commands                                                           *)

\* os.listdir(WRAPPER_SCRIPTS_FOLDER)
listdir(W) == {n \in DOMAIN W : W[n].present}

\* sorted(commands, key=str.lower)
RECURSIVE sorted_caseless(_)
sorted_caseless(S) ==
    IF S = {} THEN <<>>
    ELSE LET m == CHOOSE x \in S :
                      \A y \in S \ {x} : ~StrLess(Lower(y), Lower(x))
         IN  <<m>> \o sorted_caseless(S \ {m})

\* sorted(commands)
RECURSIVE sorted(_)
sorted(S) ==
    IF S = {} THEN <<>>
    ELSE LET m == CHOOSE x \in S : \A y \in S \ {x} : StrLess(x, y)
         IN  <<m>> \o sorted(S \ {m})

\* The loop of lines 652-659 stopping one entry early
table_rows_short(W) ==
    LET cmds == sorted(listdir(W))
    IN  [i \in 1..(Len(cmds) - 1) |->
            [name |-> cmds[i], path |-> extract_script_path(W[cmds[i]].text)]]

\* Lines 652-659: one row per entry of the folder, in sorted order.
table_rows(W) ==
    LET cmds == sorted(listdir(W))
    IN  [i \in 1..Len(cmds) |->
            [name |-> cmds[i], path |-> extract_script_path(W[cmds[i]].text)]]

\* Lines 635-660.  A wrapper without the marker raises IndexError, which
\* main() reports; no table is printed then.
list_commands ==
    /\ Enter([op |-> "list", name |-> <<>>, new_name |-> <<>>, path |-> <<>>,
              force |-> FALSE, answer |-> <<>>])
    /\ IF ~folder
       THEN /\ out' = << Msg("warn", "folder missing") >>
            /\ listing' = <<>>
       ELSE IF listdir(wrappers) = {}
       THEN /\ out' = << Msg("info", "no commands") >>
            /\ listing' = <<>>
       ELSE IF \E n \in listdir(wrappers) : ~HasMarker(wrappers[n].text)
       THEN /\ out' = << Msg("error", "operation failed") >>
            /\ listing' = <<>>
       ELSE /\ out' = << Msg("print", "table") >>
            /\ listing' = table_rows(wrappers)
    /\ loc' = NoLocals
    /\ pc' = "idle"
    /\ UNCHANGED <<wrappers, bin, folder>>

-----------------------------------------------------------------------------
(* The registry with every filesystem call succeeding.                     *)

\* The inputs a call reads.  What a handler returns without reading (the
\* path, the flag and the script's kind for a name that is refused, the
\* answer when no question is asked) is drawn from one value.
Refused(n) == name_check[n] # "ok"

ArgsFor(n) == IF Refused(n) THEN { <<"/", "x", ".py">> } ELSE ScriptArgs

KindsFor(n) == IF Refused(n) THEN {"file"} ELSE ScriptKinds

FlagsFor(n) == IF Refused(n) THEN {FALSE} ELSE BOOLEAN

AnswersFor(asked) == IF asked THEN Answers ELSE { <<>> }

Asks(n, force) ==
    /\ ~force
    /\ wrapper_exists(wrappers, n) \/ symlink_exists(bin, wrappers, n)
    /\ ~ReportRaises(wrappers, n)

add_call(NS) ==
    \E n \in NS :
       \E arg \in ArgsFor(n), force \in FlagsFor(n), kind \in KindsFor(n) :
          \E answer \in AnswersFor(/\ Asks(n, force)
                                    /\ validate_script_path(abspath(arg), kind) = "ok") :
             add_command(n, arg, kind, force, answer)

delete_call(NS) == \E n \in NS : delete_command(n)

rename_call(NS) ==
    \E a \in OldNames, b \in NS :
       \E force \in FlagsFor(b) :
          \E answer \in AnswersFor(/\ Asks(b, force)
                                    /\ a # b /\ wrapper_exists(wrappers, a)) :
             rename_command(a, b, force, answer)

\* The steps of a handler that was called, every filesystem call succeeding.
Step ==
    \/ add_write("ok")
    \/ add_chmod(FALSE)
    \/ add_remove_symlink(FALSE)
    \/ add_symlink(FALSE)
    \/ delete_symlink(FALSE)
    \/ delete_wrapper(FALSE)
    \/ rename_read(FALSE)
    \/ rename_write("ok")
    \/ rename_chmod(FALSE)
    \/ rename_remove_symlink(FALSE)
    \/ rename_symlink(FALSE)
    \/ rename_old_symlink(FALSE)
    \/ rename_old_wrapper(FALSE)
    \/ rename_rollback_wrapper(FALSE)
    \/ rename_rollback_symlink(FALSE)

Next ==
    \/ add_call(Names)
    \/ delete_call(Names)
    \/ rename_call(Names)
    \/ list_commands
    \/ Step

Spec == Init /\ [][Next]_vars

-----------------------------------------------------------------------------
(* The registry with filesystem calls that can fail: in each handler at    *)
(* most one call raises OSError (a full disk, a read-only directory, a     *)
(* permission), at any of the places where the handler calls the           *)
(* filesystem.  add_command's clean-up is reached only after a failure, so  *)
(* its own removal is a call that does not fail here.                      *)

Failure ==
    \/ add_write("open")
    \/ add_write("write")
    \/ add_chmod(TRUE)
    \/ add_remove_symlink(TRUE)
    \/ add_symlink(TRUE)
    \/ delete_symlink(TRUE)
    \/ delete_wrapper(TRUE)
    \/ rename_read(TRUE)
    \/ rename_write("open")
    \/ rename_write("write")
    \/ rename_chmod(TRUE)
    \/ rename_remove_symlink(TRUE)
    \/ rename_symlink(TRUE)
    \/ rename_old_symlink(TRUE)
    \/ rename_old_wrapper(TRUE)
    \/ rename_rollback_wrapper(TRUE)
    \/ rename_rollback_symlink(TRUE)

NextFault == Next \/ add_rollback(FALSE) \/ Failure

SpecFault == Init /\ [][NextFault]_vars

-----------------------------------------------------------------------------
(* The registry called with every name of AllNames.                        *)

NextNames ==
    \/ add_call(AllNames)
    \/ delete_call(AllNames)
    \/ rename_call(AllNames)
    \/ list_commands
    \/ Step

SpecNames == Init /\ [][NextNames]_vars

-----------------------------------------------------------------------------
(* The registry in a bin directory that holds entries of other programs:   *)
(* USER_BIN_DIR is ~/.local/bin, which the registry shares.                *)

InitForeign ==
    /\ wrappers = [n \in StoreNames |-> NoFile]
    /\ bin \in [StoreNames -> {NoEntry, ForeignFile, ForeignLink}]
    /\ folder = TRUE
    /\ pc = "idle"
    /\ call = NoCall
    /\ loc = NoLocals
    /\ out = <<>>
    /\ pre = [wrappers |-> wrappers, bin |-> bin]
    /\ prior = NoCall
    /\ listing = <<>>

NextForeign ==
    \/ add_call(StoreNames)
    \/ delete_call(StoreNames)
    \/ rename_call(StoreNames)
    \/ Step

SpecForeign == InitForeign /\ [][NextForeign]_vars

-----------------------------------------------------------------------------
(* The registry with wrappers that the user edits.                         *)

edit_call(NS) ==
    \E n \in NS :
       \E result \in (IF wrapper_exists(wrappers, n) /\ n \in DOMAIN wrappers
                       THEN EditResults ELSE {"same"}) :
          edit_command(n, result)

NextEdit ==
    \/ add_call(Names)
    \/ edit_call(Names)
    \/ delete_call(Names)
    \/ rename_call(Names)
    \/ list_commands
    \/ Step

SpecEdit == Init /\ [][NextEdit]_vars

-----------------------------------------------------------------------------
(* install and uninstall: the handlers that make and remove the            *)
(* wrapper-scripts folder (INSTALL_DIR/scripts).                           *)

\* Lines 689-697: os.makedirs(WRAPPER_SCRIPTS_FOLDER, exist_ok=True); the
\* rest of install copies the tool itself.
install ==
    /\ Enter([op |-> "install", name |-> <<>>, new_name |-> <<>>,
              path |-> <<>>, force |-> FALSE, answer |-> <<>>])
    /\ folder' = TRUE
    /\ out' = << Msg("success", "created directories") >>
    /\ loc' = NoLocals
    /\ pc' = "idle"
    /\ listing' = <<>>
    /\ UNCHANGED <<wrappers, bin>>

\* Lines 757-801.  A hard uninstall asks unless forced, and removes the bin
\* entry of every wrapper it lists; every uninstall removes INSTALL_DIR, the
\* wrapper-scripts folder and its wrappers with it.
uninstall(hard, force, answer) ==
    /\ Enter([op |-> "uninstall", name |-> <<>>, new_name |-> <<>>,
              path |-> <<>>, force |-> force, answer |-> answer])
    /\ IF hard /\ ~force /\ declines(answer)
       THEN /\ out' = << Msg("warn", "hard uninstall"), Msg("input", "sure?"),
                         Msg("info", "cancelled") >>
            /\ UNCHANGED <<wrappers, bin, folder>>
       ELSE /\ out' = ( IF hard /\ ~force
                        THEN << Msg("warn", "hard uninstall"),
                                Msg("input", "sure?") >>
                        ELSE <<>> )
                      \o << Msg("success", "uninstalled") >>
            /\ bin' = [n \in DOMAIN bin |->
                          IF hard /\ folder /\ n \in listdir(wrappers)
                                  /\ symlink_exists(bin, wrappers, n)
                          THEN NoEntry ELSE bin[n]]
            /\ wrappers' = [n \in DOMAIN wrappers |-> NoFile]
            /\ folder' = FALSE
    /\ loc' = NoLocals
    /\ pc' = "idle"
    /\ listing' = <<>>

uninstall_call ==
    \E hard \in BOOLEAN, force \in BOOLEAN :
       \E answer \in AnswersFor(hard /\ ~force) :
          uninstall(hard, force, answer)

-----------------------------------------------------------------------------
(* The registry listed: a folder that is missing, empty, or holds the      *)
(* wrappers of commands added before, from which commands are deleted.     *)

ListNames ==
    { <<"a">>, <<"B">>, <<"a","b">>, <<"a","B">>, <<"Z","_">> }

InitList ==
    /\ folder \in BOOLEAN
    /\ \E S \in SUBSET ListNames :
          /\ ~folder => S = {}
          /\ wrappers = [n \in ListNames |->
                IF n \in S
                THEN File(create_wrapper_script(<<"/", "x", ".py">>), TRUE)
                ELSE NoFile]
          /\ bin = [n \in ListNames |-> IF n \in S THEN Link(n) ELSE NoEntry]
    /\ pc = "idle"
    /\ call = NoCall
    /\ loc = NoLocals
    /\ out = <<>>
    /\ pre = [wrappers |-> wrappers, bin |-> bin]
    /\ prior = NoCall
    /\ listing = <<>>

NextList ==
    \/ list_commands
    \/ delete_call(ListNames)
    \/ delete_symlink(FALSE)
    \/ delete_wrapper(FALSE)
    \/ install
    \/ uninstall_call

SpecList == InitList /\ [][NextList]_vars

-----------------------------------------------------------------------------
(* The wrapper's text written and read back, for every path of at most     *)
(* MaxPathLen tokens: create_wrapper_script followed by the expression     *)
(* that add_command, rename_command and list_commands read the path with.  *)

MaxPathLen == 3

PathTokens == {"/", "x", ".py", QUOTE}

RECURSIVE PathsOfLen(_)
PathsOfLen(k) ==
    IF k = 0 THEN { <<>> }
    ELSE {Append(q, t) : q \in PathsOfLen(k - 1), t \in PathTokens}

Paths == UNION {PathsOfLen(k) : k \in 0..MaxPathLen}

InitRender ==
    /\ wrappers = [n \in StoreNames |-> NoFile]
    /\ bin = [n \in StoreNames |-> NoEntry]
    /\ folder = TRUE
    /\ pc = "render"
    /\ call = NoCall
    /\ \E script_path \in Paths :
          loc = [NoLocals EXCEPT !.script_path = script_path]
    /\ out = <<>>
    /\ pre = [wrappers |-> wrappers, bin |-> bin]
    /\ prior = NoCall
    /\ listing = <<>>

\* f.write(create_wrapper_script(script_path)), lines 268-269 and 368-369
render ==
    /\ pc = "render"
    /\ wrappers' = [wrappers EXCEPT
          ![<<"a">>] = File(create_wrapper_script(loc.script_path), FALSE)]
    /\ pc' = "parse"
    /\ UNCHANGED <<bin, folder, call, loc, out, pre, prior, listing>>

\* content = f.read(); content.split('script_path = "')[1].split('"')[0],
\* lines 254-256, 350-353, 363-365 and 655-658
parse ==
    /\ pc = "parse"
    /\ listing' = << [name |-> <<"a">>,
                      path |-> extract_script_path(wrappers[<<"a">>].text)] >>
    /\ pc' = "parsed"
    /\ UNCHANGED <<wrappers, bin, folder, call, loc, out, pre, prior>>

NextRender == render \/ parse

SpecRender == InitRender /\ [][NextRender]_vars

-----------------------------------------------------------------------------
(* The states of one command name.                                         *)

HasWrapper(W, n) == n \in DOMAIN W /\ W[n].present

HasSymlink(B, n) == n \in DOMAIN B /\ B[n].kind # "none"

\* Registered: the wrapper is there and executable, and the symlink of that
\* name points at it.
Registered(W, B, n) ==
    /\ HasWrapper(W, n)
    /\ W[n].exec
    /\ n \in DOMAIN B /\ B[n] = Link(n)

Absent(W, B, n) == ~HasWrapper(W, n) /\ ~HasSymlink(B, n)

\* The path a wrapper embeds, as every reader takes it from the text.
Target(W, n) == extract_script_path(W[n].text)

\* The rows list_commands would print for name n in the directory W.
RowsOf(W, n) == {i \in 1..Len(table_rows(W)) : table_rows(W)[i].name = n}

Raised(o, what) ==
    \E i \in 1..Len(o) : o[i].level = "error" /\ o[i].text = what

Asked(o) == \E i \in 1..Len(o) : o[i].level = "input"

\* The name the running handler registers: add_command's name,
\* rename_command's new name.
TargetName == IF call.op = "rename" THEN call.new_name ELSE call.name

-----------------------------------------------------------------------------
(* The claims.                                                             *)

\* C1: between handlers, with no filesystem call failing and starting from
\* an empty registry, every command name has a symlink in the bin directory
\* if and only if it has a wrapper in the wrapper-scripts folder.
PairingInvariant ==
    pc = "idle" =>
        \A n \in AllNames : HasSymlink(bin, n) <=> HasWrapper(wrappers, n)

\* C1's case: a rename has succeeded, leaving one name paired and the other
\* with neither half.
PairingWitness ==
    /\ pc = "idle" /\ call.op = "rename" /\ Succeeded(out)
    /\ Registered(wrappers, bin, call.new_name)
    /\ Registered(pre.wrappers, pre.bin, call.name)
    /\ Absent(wrappers, bin, call.name)

\* C2: an add_command of a valid name and an existing readable script that
\* reported success, followed by list_commands: the table holds the pair
\* (name, path) exactly once.
AddThenListShowsPair ==
    (pc = "idle" /\ call.op = "list" /\ prior.op = "add") =>
        Cardinality({i \in 1..Len(listing) :
            listing[i] = [name |-> prior.name, path |-> prior.path]}) = 1

\* C3: rename_command(a, b) with a Registered and b Absent (b a valid name,
\* no filesystem call failing) ends with a Absent and b Registered, b's
\* wrapper embedding the path a's wrapper embedded.
RenameMovesRegistration ==
    ( /\ pc = "idle" /\ call.op = "rename"
      /\ call.new_name \in StoreNames
      /\ Registered(pre.wrappers, pre.bin, call.name)
      /\ Absent(pre.wrappers, pre.bin, call.new_name) )
    => /\ Absent(wrappers, bin, call.name)
       /\ Registered(wrappers, bin, call.new_name)
       /\ Target(wrappers, call.new_name) = Target(pre.wrappers, call.name)

\* C3's case: such a rename has run, of a command whose path is not empty.
RenameMovesWitness ==
    /\ pc = "idle" /\ call.op = "rename" /\ Succeeded(out)
    /\ call.new_name \in StoreNames
    /\ Registered(pre.wrappers, pre.bin, call.name)
    /\ Absent(pre.wrappers, pre.bin, call.new_name)
    /\ Target(pre.wrappers, call.name) # <<>>

\* C4: when rename_command(a, b) fails in its new-registration phase (the
\* exception handler is entered), a's wrapper and a's symlink are as they
\* were when it was called, in every state from the failure on.
RenameFailureKeepsSource ==
    ( /\ call.op = "rename" /\ call.name \in StoreNames
      /\ Raised(out, "failed to rename") )
    => /\ wrappers[call.name] = pre.wrappers[call.name]
       /\ bin[call.name] = pre.bin[call.name]

\* C4's case: a filesystem call of a rename of a Registered command failed
\* after the new wrapper was made, the clean-up has run and removed it.
RenameFailureWitness ==
    /\ pc = "idle" /\ call.op = "rename" /\ loc.failed
    /\ Raised(out, "failed to rename")
    /\ loc.script_path # <<>>
    /\ Registered(wrappers, bin, call.name)
    /\ Absent(wrappers, bin, call.new_name)

\* C5: in every state of a rename_command(a, b) of a Registered a, with at
\* most one filesystem call failing, a or b is Registered, and nothing of a
\* has been removed unless b is Registered.
RenameKeepsOneUsable ==
    ( call.op = "rename" /\ Registered(pre.wrappers, pre.bin, call.name) )
    => /\ \/ Registered(wrappers, bin, call.name)
          \/ Registered(wrappers, bin, call.new_name)
       /\ ( \/ wrappers[call.name] # pre.wrappers[call.name]
            \/ bin[call.name] # pre.bin[call.name] )
          => Registered(wrappers, bin, call.new_name)

\* C5's case: the rename is between its two removals: a's symlink is gone and
\* a's wrapper is still there.
RenameTeardownWitness ==
    /\ call.op = "rename" /\ pc = "rename_old_wrapper"
    /\ Registered(pre.wrappers, pre.bin, call.name)
    /\ ~HasSymlink(bin, call.name) /\ HasWrapper(wrappers, call.name)

\* C6: add_command(n, p1) then add_command(n, p2) with force, both reporting
\* success and p1 # p2: n is Registered, the table has one row for n, that
\* row shows p2 and not p1, and the second call asked nothing.
OverwriteListsNewTarget ==
    ( /\ pc = "idle" /\ call.op = "add" /\ call.force /\ Succeeded(out)
      /\ prior.op = "add" /\ prior.name = call.name
      /\ prior.path # loc.script_path )
    => /\ Registered(wrappers, bin, call.name)
       /\ Cardinality(RowsOf(wrappers, call.name)) = 1
       /\ \A i \in RowsOf(wrappers, call.name) :
             /\ table_rows(wrappers)[i].path = loc.script_path
             /\ table_rows(wrappers)[i].path # prior.path
       /\ ~Asked(out)

\* C7: add_command(n, p) reporting success, then delete_command(n): n has
\* neither wrapper nor symlink, and the table has no row for n.
AddThenDeleteLeavesNothing ==
    ( /\ pc = "idle" /\ call.op = "delete"
      /\ prior.op = "add" /\ prior.name = call.name )
    => /\ Absent(wrappers, bin, call.name)
       /\ RowsOf(wrappers, call.name) = {}

\* C7's case: the delete ran right after the add and reported success, with
\* the other command still listed.
AddThenDeleteWitness ==
    /\ pc = "idle" /\ call.op = "delete" /\ Succeeded(out)
    /\ prior.op = "add" /\ prior.name = call.name
    /\ Registered(pre.wrappers, pre.bin, call.name)
    /\ Len(table_rows(wrappers)) = 1

\* C8: delete_command(n) removes whichever half of n is there: the symlink
\* when there is one and the wrapper when there is one, each unless its own
\* removal fails; and when one removal fails the other half is still removed.
DeleteReclaimsEitherHalf ==
    ( pc = "idle" /\ call.op = "delete" /\ call.name \in StoreNames )
    => /\ (HasSymlink(pre.bin, call.name) /\ ~loc.failed)
             => ~HasSymlink(bin, call.name)
       /\ (HasWrapper(pre.wrappers, call.name) /\ ~loc.failed)
             => ~HasWrapper(wrappers, call.name)
       /\ loc.failed
             => ~(HasSymlink(bin, call.name) /\ HasWrapper(wrappers, call.name))

\* C9: no handler removes or replaces an entry of the bin directory that the
\* registry did not create: a regular file or a symlink of another program
\* is, in every state of a handler, what it was when the handler was called.
ForeignEntriesUntouched ==
    \A n \in StoreNames :
        pre.bin[n].kind \in {"file", "flink"} => bin[n] = pre.bin[n]

\* The names C10 says are refused.
ClaimReserved ==
    { <<"p","y","t","h","o","n">>, <<"p","y","t","h","o","n","3">>,
      <<"p","i","p">>, <<"p","i","p","3">>, <<"g","i","t">>, <<"l","s">>,
      <<"c","d">>, <<"p","w","d">>, <<"c","a","t">>, <<"g","r","e","p">>,
      <<"f","i","n","d">>, <<"m","k","d","i","r">>, <<"r","m">>,
      <<"c","p">>, <<"m","v">> }

ClaimRefuses(n) ==
    \/ n = <<>>
    \/ n[1] \in Digits
    \/ Lower(n) = <<"b","a","k","e">>
    \/ Lower(n) \in ClaimReserved

\* C10: add_command(n, ...) and rename_command(a, n) with n empty, starting
\* with a digit, spelling "bake" or a reserved name in any case, print one
\* error, the name's, and leave every wrapper and symlink as it was.
InvalidNameRejected ==
    ( /\ call.op \in {"add", "rename"}
      /\ ClaimRefuses(IF call.op = "add" THEN call.name ELSE call.new_name) )
    => /\ pc = "idle"
       /\ Len(out) = 1
       /\ out[1].level = "error"
       /\ out[1].text \in {"empty", "format", "bake", "reserved"}
       /\ wrappers = pre.wrappers
       /\ bin = pre.bin

\* C10's case: a Registered command was to be renamed to "GIT".
InvalidNameWitness ==
    /\ call.op = "rename" /\ call.new_name = <<"G","I","T">>
    /\ Registered(pre.wrappers, pre.bin, call.name)
    /\ Raised(out, "reserved")

\* C11 as stated: add_command(n, p) or rename_command(a, n) without force on
\* a Registered n asks, and with any answer other than "y" returns with every
\* wrapper and symlink as it was.
CancelOnAnyOtherAnswer ==
    ( /\ call.op \in {"add", "rename"} /\ ~call.force
      /\ Registered(pre.wrappers, pre.bin, TargetName)
      /\ call.answer # <<"y">> )
    => /\ pc = "idle"
       /\ wrappers = pre.wrappers
       /\ bin = pre.bin

\* C11: add_command(n, p) or rename_command(a, n) without force on a
\* Registered n asks for confirmation unless it refuses its arguments first,
\* and with an answer that is neither "y" nor "Y" it returns ("cancelled")
\* with every wrapper and symlink as it was.
CancelIsNoOp ==
    ( /\ call.op \in {"add", "rename"} /\ ~call.force
      /\ Registered(pre.wrappers, pre.bin, TargetName)
      /\ call.answer \notin { <<"y">>, <<"Y">> } )
    => /\ pc = "idle"
       /\ wrappers = pre.wrappers
       /\ bin = pre.bin
       /\ \/ Len(out) = 1 /\ out[1].level = "error"
          \/ /\ Asked(out)
             /\ out[Len(out)] = Msg("info", "cancelled")

\* C11's case: a rename onto a Registered name was asked about and refused
\* with the empty answer, both commands staying Registered.
CancelWitness ==
    /\ pc = "idle" /\ call.op = "rename" /\ ~call.force
    /\ call.answer = <<>>
    /\ Asked(out) /\ out[Len(out)] = Msg("info", "cancelled")
    /\ Registered(wrappers, bin, call.name)
    /\ Registered(wrappers, bin, call.new_name)

\* C12: the table list_commands prints has its rows in strictly ascending
\* order of name, names compared character by character by code
\* (case-sensitive); and with the wrapper-scripts folder empty or missing it
\* prints no row and no error.
ListSortedOrEmpty ==
    ( pc = "idle" /\ call.op = "list" )
    => /\ \A i \in 1..Len(listing) : \A j \in (i+1)..Len(listing) :
             StrLess(listing[i].name, listing[j].name)
       /\ {listing[i].name : i \in 1..Len(listing)} = listdir(wrappers)
       /\ ( ~folder \/ listdir(wrappers) = {} )
             => /\ listing = <<>>
                /\ \A i \in 1..Len(out) : out[i].level # "error"

\* C12's case: a table of five rows, where the case-sensitive order ("B" and
\* "Z_" before "a", "aB" before "ab") is not the case-insensitive one.
ListSortedWitness ==
    /\ pc = "idle" /\ call.op = "list"
    /\ Len(listing) = 5
    /\ listing[1].name = <<"B">> /\ listing[3].name = <<"a">>
    /\ listing[4].name = <<"a","B">>

\* The editor was started by the running (or last) handler.
EditorInvoked(o) == \E i \in 1..Len(o) : o[i].level = "system"

\* C13: delete_command(n), edit_command(n) and rename_command(n, m) on a
\* name n that has neither wrapper nor symlink print "Command not found" (and
\* nothing else), start no editor and leave every wrapper and symlink as it
\* was.  For rename, m is a valid name other than n.
AbsentNameNotFound ==
    ( /\ call.op \in {"delete", "edit", "rename"}
      /\ Absent(pre.wrappers, pre.bin, call.name)
      /\ call.op = "rename" =>
            (call.new_name \in StoreNames /\ call.new_name # call.name) )
    => /\ pc = "idle"
       /\ out = << Msg("error", "not found") >>
       /\ ~EditorInvoked(out)
       /\ wrappers = pre.wrappers
       /\ bin = pre.bin

\* C14: with at most one filesystem call failing in each handler, an
\* add_command, delete_command or rename_command that printed its success
\* message leaves each name it was called with either Absent or Registered,
\* and a rename_command leaves the old name Absent.
SuccessLeavesNoPartialState ==
    ( /\ pc = "idle" /\ call.op \in {"add", "delete", "rename"}
      /\ Succeeded(out) )
    => /\ \A n \in {call.name, TargetName} :
             Absent(wrappers, bin, n) \/ Registered(wrappers, bin, n)
       /\ call.op = "rename" => Absent(wrappers, bin, call.name)

\* C15: in add_command(n, p) the wrapper is written before it is made
\* executable and before the bin directory is touched; and when the call
\* fails ("Failed to create command": the write, chmod, or os.symlink after
\* the removal of the existing symlink failed, raised; one call failing), the
\* wrapper of n is absent when the call returns.
AddRollsBackWrapper ==
    call.op = "add" =>
       /\ pc = "add_write" => (wrappers = pre.wrappers /\ bin = pre.bin)
       /\ pc = "add_chmod" =>
             /\ wrappers[call.name].text = create_wrapper_script(loc.script_path)
             /\ wrappers[call.name].exec = pre.wrappers[call.name].exec
             /\ bin = pre.bin
       /\ pc \in {"add_remove_symlink", "add_symlink"} =>
             wrappers[call.name] =
                File(create_wrapper_script(loc.script_path), TRUE)
       /\ ( pc = "idle" /\ Raised(out, "failed to create") )
          => ~HasWrapper(wrappers, call.name)

\* C15's case: the removal of the existing symlink failed after the wrapper
\* was written, os.symlink then raised, and the call has returned.
AddRollbackWitness ==
    /\ pc = "idle" /\ call.op = "add" /\ loc.failed
    /\ Len(out) >= 2
    /\ out[Len(out) - 1] = Msg("error", "remove failed")
    /\ out[Len(out)] = Msg("error", "failed to create")
    /\ ~HasWrapper(wrappers, call.name)

\* C16: for every path p, the text between the first 'script_path = "' and
\* the next '"' of create_wrapper_script(p) is p.
WrapperRoundTrip ==
    pc = "parsed" => listing[1].path = loc.script_path

\* C17: delete_command(n) on a name whose wrapper path exists prints its
\* success message if and only if, when it returns, nothing exists at the
\* wrapper path and at the symlink path of n; otherwise its last message is
\* the warning "Partially deleted"; it never prints "Command not found".
DeleteReportsWhatRemains ==
    ( /\ pc = "idle" /\ call.op = "delete"
      /\ wrapper_exists(pre.wrappers, call.name) )
    => /\ Succeeded(out) <=>
             ( /\ ~wrapper_exists(wrappers, call.name)
               /\ ~symlink_lexists(bin, wrappers, call.name) )
       /\ ~Succeeded(out) => out[Len(out)] = Msg("warn", "partially deleted")
       /\ Succeeded(out) => out = << Msg("success", "deleted") >>
       /\ ~Raised(out, "not found")

\* C17's case: the symlink's removal failed and the wrapper's did not: the
\* symlink is left, dangling, and the deletion is reported as partial.
DeletePartialWitness ==
    /\ pc = "idle" /\ call.op = "delete" /\ loc.failed
    /\ out[Len(out)] = Msg("warn", "partially deleted")
    /\ HasSymlink(bin, call.name) /\ ~HasWrapper(wrappers, call.name)

\* add_command refused its script: validate_script_path's message is all it
\* printed.
ScriptRefused(o) ==
    /\ Len(o) = 1 /\ o[1].level = "error"
    /\ o[1].text \in {"empty path", "script not found", "not a file",
                      "not python", "cannot read"}

\* C18: add_command(n, p) with force, n a valid name and p an existing
\* readable script, none of its filesystem calls failing, reports success
\* and leaves n Registered with a wrapper from which p is read back,
\* whatever n had before: nothing, both halves, the wrapper alone or the
\* symlink alone (dangling).
ForcedAddRegisters ==
    ( /\ pc = "idle" /\ call.op = "add" /\ call.force
      /\ call.name \in StoreNames
      /\ ~ScriptRefused(out)
      /\ ~loc.failed )
    => /\ Succeeded(out)
       /\ Registered(wrappers, bin, call.name)
       /\ Target(wrappers, call.name) = loc.script_path

\* C19: when add_command(n, p2) or rename_command(a, n), called with force
\* on a Registered n, fails ("Failed to create command", "Failed to rename
\* command"), n's wrapper and n's symlink are on return what they were when
\* it was called: n is still Registered with the path it had.
FailedOverwriteKeepsTarget ==
    ( /\ pc = "idle" /\ call.op \in {"add", "rename"} /\ call.force
      /\ Registered(pre.wrappers, pre.bin, TargetName)
      /\ Raised(out, "failed to create") \/ Raised(out, "failed to rename") )
    => /\ wrappers[TargetName] = pre.wrappers[TargetName]
       /\ bin[TargetName] = pre.bin[TargetName]

\* C20: after any sequence of add_command, delete_command and
\* rename_command from the empty registry, no filesystem call failing,
\* list_commands prints exactly one row for each wrapper of the folder, and
\* the names of its rows are the names that are Registered.
ListedNamesAreRegistered ==
    ( pc = "idle" /\ call.op = "list" )
    => /\ \A n \in StoreNames :
             Cardinality({i \in 1..Len(listing) : listing[i].name = n})
                = IF HasWrapper(wrappers, n) THEN 1 ELSE 0
       /\ {listing[i].name : i \in 1..Len(listing)}
             = {n \in AllNames : Registered(wrappers, bin, n)}

\* C20's case: both storable names are Registered and the table, of two
\* rows, has been printed.
ListedNamesWitness ==
    /\ pc = "idle" /\ call.op = "list"
    /\ Len(listing) = 2
    /\ \A n \in StoreNames : Registered(wrappers, bin, n)
=============================================================================
